---- MODULE Spec2Model ----
(***************************************************************************)
(* Model of payslip_generator.py: load an Excel roster, render one PDF    *)
(* payslip per employee on a pool of 5 worker threads, then e-mail every  *)
(* payslip on a second pool of 5 worker threads.                          *)
(*                                                                         *)
(* Monetary cells are integer-valued (an int64 column of the frame); the  *)
(* date line of the payslip and the e-mail subject/body are left out.     *)
(***************************************************************************)
EXTENDS Integers, Sequences, FiniteSets, TLC

VARIABLES
    excel,            \* the workbook employees.xlsx: columns and data rows
    pc,               \* position of the main thread
    df,               \* main's frame (line 201)
    gdf,              \* generate_payslips_batch's own frame (line 135)
    rtask,            \* futures of the render pool, in submission order
    generated_files,  \* list built by generate_payslips_batch
    disk,             \* payslips/ directory: path -> rendered payslip
    stask,            \* futures of the e-mail pool, in submission order
    sent_count        \* counter of send_payslips

vars == <<excel, pc, df, gdf, rtask, generated_files, disk, stask, sent_count>>

----------------------------------------------------------------------------
(* Bounds of the model *)

MaxRows == 2          \* data rows of a workbook fed to the whole pipeline
LoadMaxRows == 2      \* data rows of a workbook fed to the loader alone
BatchRows == 6        \* data rows of a workbook fed to the render batch alone

----------------------------------------------------------------------------
(* Cells of the workbook *)

NaNCell == [t |-> "nan", i |-> 0, s |-> ""]
IntCell(n) == [t |-> "int", i |-> n, s |-> ""]
StrCell(x) == [t |-> "str", i |-> 0, s |-> x]

\* pd.isna(cell)
isna(cell) == cell.t = "nan"

\* str(cell): the canonical Employee ID
str(cell) ==
    IF cell.t = "int" THEN ToString(cell.i)
    ELSE IF cell.t = "str" THEN cell.s
    ELSE "nan"

required_columns ==
    {"Employee ID", "Name", "Email", "Basic Salary", "Allowances", "Deductions"}

max_workers == 5

----------------------------------------------------------------------------
(* load_employee_data *)

\* value returned on any failure
None == [ok |-> FALSE, rows |-> <<>>]

Frame(rows) == [ok |-> TRUE, rows |-> rows]

NetSalaryFloored(row) ==
    IF row["Basic Salary"] + row["Allowances"] - row["Deductions"] < 0
    THEN 0
    ELSE row["Basic Salary"] + row["Allowances"] - row["Deductions"]

\* df['Net Salary'] = df['Basic Salary'] + df['Allowances'] - df['Deductions']
NetSalary(row) ==
    row["Basic Salary"] + row["Allowances"] - row["Deductions"]

\* the assignment adds the column or overwrites the one the sheet already has
WithNet(rows) ==
    [k \in DOMAIN rows |-> ("Net Salary" :> NetSalary(rows[k])) @@ rows[k]]

RowMissing(row) == isna(row["Employee ID"]) \/ isna(row["Email"])

\* keeps the complete rows instead of rejecting the workbook
RECURSIVE DropMissing(_)
DropMissing(rows) ==
    IF rows = <<>> THEN <<>>
    ELSE IF RowMissing(Head(rows)) THEN DropMissing(Tail(rows))
    ELSE <<Head(rows)>> \o DropMissing(Tail(rows))

load_employee_data_partial(file) ==
    IF ~(required_columns \subseteq file.columns) THEN None
    ELSE Frame(DropMissing(WithNet(file.rows)))

load_employee_data(file) ==
    IF ~(required_columns \subseteq file.columns) THEN None
    ELSE IF \E k \in DOMAIN file.rows : RowMissing(WithNet(file.rows)[k])
         THEN None
         ELSE Frame(WithNet(file.rows))

----------------------------------------------------------------------------
(* create_payslip *)

Pad3(m) ==
    IF m < 10 THEN "00" \o ToString(m)
    ELSE IF m < 100 THEN "0" \o ToString(m)
    ELSE ToString(m)

RECURSIVE Grouped(_)
Grouped(n) ==
    IF n < 1000 THEN ToString(n)
    ELSE Grouped(n \div 1000) \o "," \o Pad3(n % 1000)

\* f"${value:,.2f}" of an integer value
FormatMoney(n) ==
    IF n < 0 THEN "$-" \o Grouped(0 - n) \o ".00"
    ELSE "$" \o Grouped(n) \o ".00"

FilenameShared(employee_id) == "payslips/payslip.pdf"

\* filename = f"payslips/{employee_id}.pdf"
Filename(employee_id) == "payslips/" \o employee_id \o ".pdf"

\* employee_data = row.to_dict(); employee_data['Employee ID'] = str(...)
EmployeeData(row) ==
    [row EXCEPT !["Employee ID"] = StrCell(str(row["Employee ID"]))]

\* the text drawn on the page
Payslip(employee_data) ==
    [employee_id |-> str(employee_data["Employee ID"]),
     name        |-> employee_data["Name"],
     email       |-> employee_data["Email"],
     basic       |-> FormatMoney(employee_data["Basic Salary"]),
     allowances  |-> FormatMoney(employee_data["Allowances"]),
     deductions  |-> FormatMoney(employee_data["Deductions"]),
     net         |-> FormatMoney(employee_data["Net Salary"])]

create_payslip_path(employee_data) ==
    Filename(str(employee_data["Employee ID"]))

----------------------------------------------------------------------------
(* Thread pools *)

Running(tasks) == {i \in DOMAIN tasks : tasks[i].st = "running"}
Queued(tasks) == {i \in DOMAIN tasks : tasks[i].st = "queued"}
Finished(tasks) == {i \in DOMAIN tasks : tasks[i].st = "finished"}

\* a worker takes the oldest queued work item when fewer than max_workers run
CanStart(tasks, i) ==
    /\ i \in Queued(tasks)
    /\ \A j \in Queued(tasks) : i <= j
    /\ Cardinality(Running(tasks)) < max_workers

\* executor.submit(...); futures.append(future)
Submit(tasks, t) == Append(tasks, t)

AnyCollected(tasks) ==
    tasks = <<>> \/ \E i \in DOMAIN tasks : tasks[i].collected

\* as_completed(futures) is exhausted and the executor has shut down
AllCollected(tasks) == \A i \in DOMAIN tasks : tasks[i].collected

CollectRenderAlways(files, t) == Append(files, t.path)

CollectRenderOnePoolful(files, t) ==
    IF t.ok /\ Len(files) < max_workers THEN Append(files, t.path) ELSE files

\* try: generated_files.append(future.result()) except Exception: print(...)
CollectRender(files, t) ==
    IF t.ok THEN Append(files, t.path) ELSE files

TallyAll(count, t) == count + 1

\* if future.result(): sent_count += 1
Tally(count, t) == IF t.ok THEN count + 1 ELSE count

\* zip(generated_files, df.iterrows())
NPairs(files, frame) ==
    IF Len(files) < Len(frame.rows) THEN Len(files) ELSE Len(frame.rows)

----------------------------------------------------------------------------
(* send_email *)

SendOutcomes ==
    {"sent", "attachment_failed", "connect_failed",
     "starttls_failed", "login_failed", "sendmail_failed", "quit_failed"}

\* return True only after sendmail and quit
SendResult(outcome) == outcome = "sent"

\* states the SMTP session can be in when send_email returns: quit() closes
\* it; before line 119 there is none; a step that fails because the server
\* dropped the connection finds it closed by smtplib, a step the server
\* rejected leaves it to the except clause, which neither quits nor closes
SessionsAfter(outcome) ==
    IF outcome \in {"sent", "quit_failed"} THEN {"closed"}
    ELSE IF outcome \in {"attachment_failed", "connect_failed"} THEN {"none"}
    ELSE {"open", "closed"}

----------------------------------------------------------------------------
(* Workbooks *)

\* a sheet row; Net Salary and Department are cells of columns a sheet may
\* carry besides the required ones
Row(id, name, email, basic, allowances, deductions) ==
    ("Employee ID" :> id) @@ ("Name" :> name) @@ ("Email" :> email)
    @@ ("Basic Salary" :> basic) @@ ("Allowances" :> allowances)
    @@ ("Deductions" :> deductions)
    @@ ("Net Salary" :> 999) @@ ("Department" :> "Ops")

Restrict(row, cols) == [c \in (DOMAIN row) \cap cols |-> row[c]]

Workbook(cols, rows) ==
    [columns |-> cols,
     rows |-> [k \in DOMAIN rows |-> Restrict(rows[k], cols)]]

Rosters(S, n) == UNION {[1..k -> S] : k \in 0..n}

ColumnSets ==
    {required_columns} \cup {required_columns \ {c} : c \in required_columns}
    \cup {required_columns \cup {"Department"}}
    \cup {required_columns \cup {"Net Salary"}}

Amounts == {<<1000, 200, 50>>, <<2000, 0, 0>>, <<500, 100, 600>>, <<500, 100, 700>>}

PipelineRows ==
    {Row(IntCell(1), "Ann", StrCell("ann@example.com"), 1000, 200, 50),
     Row(IntCell(2), "Bob", StrCell("bob@example.com"), 2000, 0, 0),
     Row(StrCell("1"), "Cy", StrCell("cy@example.com"), 500, 100, 700),
     Row(NaNCell, "Dee", StrCell("dee@example.com"), 500, 100, 600),
     Row(IntCell(3), "Eve", NaNCell, 500, 100, 600)}

PipelineFiles ==
    {Workbook(required_columns, rows) : rows \in Rosters(PipelineRows, MaxRows)}
    \cup {Workbook(required_columns \ {"Email"}, rows) :
             rows \in Rosters(PipelineRows, 1)}
    \cup {Workbook(required_columns \cup {"Net Salary"}, rows) :
             rows \in Rosters(PipelineRows, 1)}

LoadRows ==
    {Row(id, "Ann", email, a[1], a[2], a[3]) :
        id \in {NaNCell, IntCell(1), StrCell("1")},
        email \in {NaNCell, StrCell("ann@example.com")},
        a \in Amounts}

LoadFiles ==
    {Workbook(cols, rows) :
        cols \in ColumnSets, rows \in Rosters(LoadRows, LoadMaxRows)}

BatchRow(k) ==
    Row(IntCell(k), "Emp", StrCell("emp" \o ToString(k) \o "@example.com"),
        1000 * k, 200, 50)

BatchFiles ==
    {Workbook(required_columns, [k \in 1..n |-> BatchRow(k)]) : n \in 0..BatchRows}

----------------------------------------------------------------------------
(* Initial states *)

InitWith(files) ==
    /\ excel \in files
    /\ pc = "main_load"
    /\ df = None
    /\ gdf = None
    /\ rtask = <<>>
    /\ generated_files = <<>>
    /\ disk = <<>>
    /\ stask = <<>>
    /\ sent_count = 0

Init == InitWith(PipelineFiles)

InitLoad == InitWith(LoadFiles)

\* generate_payslips_batch is entered after main's load succeeded
InitBatch ==
    /\ excel \in BatchFiles
    /\ pc = "gen_load"
    /\ df = load_employee_data(excel)
    /\ gdf = None
    /\ rtask = <<>>
    /\ generated_files = <<>>
    /\ disk = <<>>
    /\ stask = <<>>
    /\ sent_count = 0

----------------------------------------------------------------------------
(* main, lines 200-203 *)

MainLoadFallThrough ==
    /\ pc = "main_load"
    /\ df' = load_employee_data(excel)
    /\ pc' = "gen_load"
    /\ UNCHANGED <<excel, gdf, rtask, generated_files, disk, stask, sent_count>>

MainLoad ==
    /\ pc = "main_load"
    /\ df' = load_employee_data(excel)
    /\ pc' = IF df'.ok THEN "gen_load" ELSE "aborted"
    /\ UNCHANGED <<excel, gdf, rtask, generated_files, disk, stask, sent_count>>

----------------------------------------------------------------------------
(* generate_payslips_batch *)

\* lines 135-139
GenLoad ==
    /\ pc = "gen_load"
    /\ gdf' = load_employee_data(excel)
    /\ generated_files' = <<>>
    /\ pc' = IF gdf'.ok THEN "gen_submit" ELSE "send_submit"
    /\ UNCHANGED <<excel, df, rtask, disk, stask, sent_count>>

\* lines 144-148, one iteration
GenSubmit ==
    /\ pc = "gen_submit"
    /\ Len(rtask) < Len(gdf.rows)
    /\ LET employee_data == EmployeeData(gdf.rows[Len(rtask) + 1])
       IN rtask' = Submit(rtask, [data |-> employee_data,
                                  path |-> create_payslip_path(employee_data),
                                  st |-> "queued", ok |-> FALSE,
                                  collected |-> FALSE])
    /\ UNCHANGED <<excel, pc, df, gdf, generated_files, disk, stask, sent_count>>

\* the submission loop ends; as_completed starts
GenSubmitted ==
    /\ pc = "gen_submit"
    /\ Len(rtask) >= Len(gdf.rows)
    /\ pc' = "gen_collect"
    /\ UNCHANGED <<excel, df, gdf, rtask, generated_files, disk, stask, sent_count>>

\* a worker thread picks up create_payslip(employee_data)
RenderStart(i) ==
    /\ CanStart(rtask, i)
    /\ rtask' = [rtask EXCEPT ![i].st = "running"]
    /\ UNCHANGED <<excel, pc, df, gdf, generated_files, disk, stask, sent_count>>

\* create_payslip runs to c.save() and returns filename
RenderOk(i) ==
    /\ i \in Running(rtask)
    /\ disk' = (rtask[i].path :> Payslip(rtask[i].data)) @@ disk
    /\ rtask' = [rtask EXCEPT ![i].st = "finished", ![i].ok = TRUE]
    /\ UNCHANGED <<excel, pc, df, gdf, generated_files, stask, sent_count>>

\* create_payslip raises (directory or file cannot be written)
RenderFail(i) ==
    /\ i \in Running(rtask)
    /\ rtask' = [rtask EXCEPT ![i].st = "finished", ![i].ok = FALSE]
    /\ UNCHANGED <<excel, pc, df, gdf, generated_files, disk, stask, sent_count>>

\* lines 150-154, one iteration: as_completed yields a finished future.
\* Futures that finished during the submission loop are yielded in the order
\* of a set, the later ones in completion order, so any finished future that
\* was not yet yielded may come next.
GenCollect(i) ==
    /\ pc = "gen_collect"
    /\ i \in Finished(rtask)
    /\ ~rtask[i].collected
    /\ generated_files' = CollectRender(generated_files, rtask[i])
    /\ rtask' = [rtask EXCEPT ![i].collected = TRUE]
    /\ UNCHANGED <<excel, pc, df, gdf, disk, stask, sent_count>>

\* lines 155-156: the with block exits and the list is returned
GenReturn ==
    /\ pc = "gen_collect"
    /\ AllCollected(rtask)
    /\ pc' = "send_submit"
    /\ UNCHANGED <<excel, df, gdf, rtask, generated_files, disk, stask, sent_count>>

----------------------------------------------------------------------------
(* send_payslips *)

\* lines 165-180, one iteration
SendSubmit ==
    /\ pc = "send_submit"
    /\ Len(stask) < NPairs(generated_files, df)
    /\ LET k == Len(stask) + 1
       IN stask' = Submit(stask, [to |-> df.rows[k]["Email"],
                                  attachment |-> generated_files[k],
                                  st |-> "queued", ok |-> FALSE,
                                  session |-> "none", attempts |-> 0,
                                  collected |-> FALSE])
    /\ UNCHANGED <<excel, pc, df, gdf, rtask, generated_files, disk, sent_count>>

\* zip is exhausted; as_completed starts
SendSubmitted ==
    /\ pc = "send_submit"
    /\ Len(stask) >= NPairs(generated_files, df)
    /\ pc' = "send_collect"
    /\ UNCHANGED <<excel, df, gdf, rtask, generated_files, disk, stask, sent_count>>

\* a worker thread picks up send_email(...)
SendStart(k) ==
    /\ CanStart(stask, k)
    /\ stask' = [stask EXCEPT ![k].st = "running",
                              ![k].attempts = stask[k].attempts + 1]
    /\ UNCHANGED <<excel, pc, df, gdf, rtask, generated_files, disk, sent_count>>

\* send_email returns True or False, lines 100-131
SendFinish(k, outcome) ==
    /\ k \in Running(stask)
    /\ stask[k].attachment \notin DOMAIN disk => outcome = "attachment_failed"
    /\ \E session \in SessionsAfter(outcome) :
          stask' = [stask EXCEPT ![k].st = "finished",
                                 ![k].ok = SendResult(outcome),
                                 ![k].session = session]
    /\ UNCHANGED <<excel, pc, df, gdf, rtask, generated_files, disk, sent_count>>

\* lines 182-184, one iteration; send_email never raises an Exception, so
\* future.result() is its boolean
SendCollect(k) ==
    /\ pc = "send_collect"
    /\ k \in Finished(stask)
    /\ ~stask[k].collected
    /\ sent_count' = Tally(sent_count, stask[k])
    /\ stask' = [stask EXCEPT ![k].collected = TRUE]
    /\ UNCHANGED <<excel, pc, df, gdf, rtask, generated_files, disk>>

\* lines 186, 209-212: the count is returned and the summary printed
SendReturn ==
    /\ pc = "send_collect"
    /\ AllCollected(stask)
    /\ pc' = "done"
    /\ UNCHANGED <<excel, df, gdf, rtask, generated_files, disk, stask, sent_count>>

----------------------------------------------------------------------------
(* Specifications *)

GenStep ==
    \/ GenLoad
    \/ GenSubmit
    \/ GenSubmitted
    \/ \E i \in DOMAIN rtask : RenderStart(i)
    \/ \E i \in DOMAIN rtask : RenderOk(i)
    \/ \E i \in DOMAIN rtask : RenderFail(i)
    \/ \E i \in DOMAIN rtask : GenCollect(i)
    \/ GenReturn

SendStep ==
    \/ SendSubmit
    \/ SendSubmitted
    \/ \E k \in DOMAIN stask : SendStart(k)
    \/ \E k \in DOMAIN stask, outcome \in SendOutcomes : SendFinish(k, outcome)
    \/ \E k \in DOMAIN stask : SendCollect(k)
    \/ SendReturn

Next == MainLoad \/ GenStep \/ SendStep

Spec == Init /\ [][Next]_vars

\* the loader alone, on a wide range of workbooks
NextLoad == MainLoad

SpecLoad == InitLoad /\ [][NextLoad]_vars

\* generate_payslips_batch alone, on rosters larger than the pool
NextBatch == GenStep

SpecBatch == InitBatch /\ [][NextBatch]_vars

----------------------------------------------------------------------------
(* Properties *)

Returned == pc \in {"send_submit", "send_collect", "done"}

\* the canonical Employee IDs of a frame are pairwise distinct
DistinctIds(frame) ==
    \A i, j \in DOMAIN frame.rows :
        i # j => str(frame.rows[i]["Employee ID"]) # str(frame.rows[j]["Employee ID"])

Count(files, p) == Cardinality({k \in DOMAIN files : files[k] = p})

\* C1: every dispatched e-mail attaches the payslip generated from the record
\* it is addressed to: the k-th notification goes to the Email of row k of
\* main's frame and attaches payslips/<canonical Employee ID of row k>.pdf.
C1_OwnDocument ==
    \A k \in DOMAIN stask :
        /\ stask[k].to = df.rows[k]["Email"]
        /\ stask[k].attachment = Filename(str(df.rows[k]["Employee ID"]))

\* the workbook has every required column and no row lacks its id or e-mail
WorkbookComplete ==
    /\ required_columns \subseteq excel.columns
    /\ \A k \in DOMAIN excel.rows :
          /\ excel.rows[k]["Employee ID"].t # "nan"
          /\ excel.rows[k]["Email"].t # "nan"

\* C2: load_employee_data is all-or-nothing: a returned frame means the
\* workbook had the six required columns, holds every row of the workbook and
\* no row has a null Employee ID or Email; an incomplete workbook gives None.
C2_AllOrNothing ==
    pc # "main_load" =>
        /\ df.ok => /\ WorkbookComplete
                    /\ Len(df.rows) = Len(excel.rows)
                    /\ \A k \in DOMAIN df.rows :
                          /\ df.rows[k]["Employee ID"] = excel.rows[k]["Employee ID"]
                          /\ df.rows[k]["Email"] = excel.rows[k]["Email"]
                          /\ df.rows[k]["Employee ID"].t # "nan"
                          /\ df.rows[k]["Email"].t # "nan"
        /\ ~WorkbookComplete => df = None

\* a two-row workbook with one complete and one incomplete row was rejected
C2_Witness ==
    /\ pc = "aborted"
    /\ df = None
    /\ required_columns \subseteq excel.columns
    /\ Len(excel.rows) = 2
    /\ excel.rows[1]["Employee ID"].t # "nan"
    /\ excel.rows[1]["Email"].t # "nan"
    /\ excel.rows[2]["Email"].t = "nan"

\* C3: when main's load returns None the run stops at once: it never enters
\* generate_payslips_batch, no render task and no e-mail task is ever submitted.
C3_AbortOnLoadFailure ==
    (pc # "main_load" /\ df = None) =>
        /\ pc = "aborted"
        /\ rtask = <<>>
        /\ stask = <<>>
        /\ disk = <<>>

C3_Witness ==
    /\ pc = "aborted"
    /\ df = None
    /\ Len(excel.rows) > 0

\* C4: every loaded row has Net Salary = Basic Salary + Allowances -
\* Deductions, negative when deductions exceed the rest, and every payslip
\* on disk shows exactly that value of the row it was rendered from.
C4_NetSalaryExact ==
    /\ \A k \in DOMAIN df.rows :
          df.rows[k]["Net Salary"] =
              df.rows[k]["Basic Salary"] + df.rows[k]["Allowances"]
                  - df.rows[k]["Deductions"]
    /\ \A k \in DOMAIN gdf.rows :
          gdf.rows[k]["Net Salary"] =
              excel.rows[k]["Basic Salary"] + excel.rows[k]["Allowances"]
                  - excel.rows[k]["Deductions"]
    /\ \A i \in DOMAIN rtask :
          /\ rtask[i].data["Net Salary"] =
                 excel.rows[i]["Basic Salary"] + excel.rows[i]["Allowances"]
                     - excel.rows[i]["Deductions"]
          /\ (rtask[i].st = "finished" /\ rtask[i].ok) =>
                 \E j \in DOMAIN rtask :
                     /\ rtask[j].path = rtask[i].path
                     /\ disk[rtask[i].path].net =
                            FormatMoney(excel.rows[j]["Basic Salary"]
                                        + excel.rows[j]["Allowances"]
                                        - excel.rows[j]["Deductions"])

\* a payslip with a negative net salary has been rendered from a sheet that
\* came with a Net Salary column of its own
C4_Witness ==
    \E i \in DOMAIN rtask :
        /\ "Net Salary" \in excel.columns
        /\ excel.rows[i]["Net Salary"] = 999
        /\ rtask[i].st = "finished"
        /\ rtask[i].ok
        /\ excel.rows[i]["Deductions"] >
               excel.rows[i]["Basic Salary"] + excel.rows[i]["Allowances"]
        /\ gdf.rows[i]["Net Salary"] = -100
        /\ disk[rtask[i].path].net = "$-100.00"

\* the render tasks that returned a path
Rendered == {i \in DOMAIN rtask : rtask[i].st = "finished" /\ rtask[i].ok}

\* C5: generate_payslips_batch returns although renders failed: by then every
\* record was submitted and ran to its end, every successful render left its
\* payslip on disk, and the returned list holds exactly the paths of the
\* records whose render did not fail, each once per such record.
C5_FailuresExcluded ==
    (Returned /\ gdf.ok) =>
        /\ Len(rtask) = Len(gdf.rows)
        /\ \A i \in DOMAIN rtask :
              /\ rtask[i].st = "finished"
              /\ rtask[i].path = Filename(str(gdf.rows[i]["Employee ID"]))
              /\ rtask[i].ok => rtask[i].path \in DOMAIN disk
        /\ Len(generated_files) = Cardinality(Rendered)
        /\ Len(generated_files) <= Len(gdf.rows)
        /\ \A i \in DOMAIN rtask :
              Count(generated_files, rtask[i].path) =
                  Cardinality({j \in Rendered : rtask[j].path = rtask[i].path})

\* the batch returned after the first render failed and later ones succeeded
C5_Witness ==
    /\ Returned
    /\ Len(rtask) >= 3
    /\ ~rtask[1].ok
    /\ rtask[2].ok
    /\ ~rtask[3].ok
    /\ Len(generated_files) = Len(rtask) - 2

\* C6: when no render fails, the batch returns exactly one document per
\* record, whatever the completion order, also for more records than workers.
C6_AllDocuments ==
    (Returned /\ gdf.ok /\ \A i \in DOMAIN rtask : rtask[i].ok) =>
        /\ Len(generated_files) = Len(gdf.rows)
        /\ \A k \in DOMAIN gdf.rows :
              Count(generated_files, Filename(str(gdf.rows[k]["Employee ID"]))) =
                  Cardinality({j \in DOMAIN gdf.rows :
                      str(gdf.rows[j]["Employee ID"]) = str(gdf.rows[k]["Employee ID"])})

\* more records than workers, all rendered, returned out of submission order
C6_Witness ==
    /\ Returned
    /\ Len(gdf.rows) > max_workers
    /\ \A i \in DOMAIN rtask : rtask[i].ok
    /\ Len(generated_files) = Len(gdf.rows)
    /\ generated_files[1] = Filename(str(gdf.rows[Len(gdf.rows)]["Employee ID"]))

\* C7: every pair of zip(generated_files, df) is attempted exactly once,
\* whatever the other sends do, and the count is the number of attempts that
\* returned True, never more than the number of pairs.
C7_EveryPairAttempted ==
    /\ sent_count = Cardinality({k \in DOMAIN stask : stask[k].collected /\ stask[k].ok})
    /\ sent_count <= Len(stask)
    /\ Len(stask) <= NPairs(generated_files, df)
    /\ \A k \in DOMAIN stask : stask[k].attempts <= 1
    /\ pc = "done" =>
          /\ Len(stask) = NPairs(generated_files, df)
          /\ \A k \in DOMAIN stask :
                stask[k].st = "finished" /\ stask[k].attempts = 1
          /\ sent_count = Cardinality({k \in DOMAIN stask : stask[k].ok})

\* the first send failed, the second was still delivered and counted
C7_Witness ==
    /\ pc = "done"
    /\ Len(stask) = 2
    /\ ~stask[1].ok
    /\ stask[2].ok
    /\ sent_count = 1

\* C8: no send_email task starts before every record's render task was
\* submitted and has finished or failed.
C8_StageBarrier ==
    \A k \in DOMAIN stask :
        stask[k].st # "queued" =>
            /\ Len(rtask) = Len(gdf.rows)
            /\ \A i \in DOMAIN rtask : rtask[i].st = "finished"

\* a send is running after two renders, one failed
C8_Witness ==
    /\ Len(rtask) = 2
    /\ \E i \in DOMAIN rtask : ~rtask[i].ok
    /\ \E k \in DOMAIN stask : stask[k].st = "running"

\* C9 as stated: for every accepted roster, two render tasks running at the
\* same time never write the same path.
C9_NoSharedPath ==
    gdf.ok =>
        \A i, j \in Running(rtask) : i # j => rtask[i].path # rtask[j].path

\* C9 amended: for every accepted roster whose canonical Employee IDs are
\* pairwise distinct, the render tasks of a batch all write distinct paths.
C9_NoSharedPathDistinctIds ==
    (gdf.ok /\ DistinctIds(gdf)) =>
        \A i, j \in DOMAIN rtask : i # j => rtask[i].path # rtask[j].path

\* two renders of records with distinct ids run at the same time
C9_Witness ==
    /\ gdf.ok
    /\ DistinctIds(gdf)
    /\ Cardinality(Running(rtask)) = 2
    /\ \E i, j \in Running(rtask) :
          gdf.rows[i]["Employee ID"].t # gdf.rows[j]["Employee ID"].t

\* C10: whenever send_email has returned, True or False, the SMTP session it
\* opened is no longer open.
C10_SessionTornDown ==
    \A k \in DOMAIN stask :
        stask[k].st = "finished" => stask[k].session # "open"

====
